---- MODULE Spec2Model ----
(***************************************************************************)
(* Word-frequency metrics over a corpus of plain-text documents:           *)
(* Document, DocumentMetrics and DocumentsMetrics of document_metrics.py.  *)
(* Strings are sequences of one-character strings; Python lists are        *)
(* sequences; dicts and Counters are sequences of <<key, value>> pairs in  *)
(* insertion order; list indices keep Python's 0-based values.             *)
(***************************************************************************)
EXTENDS Integers, Sequences, FiniteSets, TLC

VARIABLES fs, dm, dsm, ret, calls, cli

vars == <<fs, dm, dsm, ret, calls, cli>>

(***************************************************************************)
(* Bounds of the model.                                                    *)
(***************************************************************************)
\* longest list of DocumentMetrics handed to a DocumentsMetrics
MaxDocs == 2
\* largest limit n passed to most_common_words_filtered_by_length
MaxLimit == 2
\* most calls of Document.read followed for one DocumentMetrics
MaxReads == 2

(***************************************************************************)
(* Optional values (None / a value) and exceptions.                        *)
(***************************************************************************)
None == <<>>
Some(v) == <<v>>
Get(o) == o[1]

NoExc == "none"

(***************************************************************************)
(* Characters and str methods.                                             *)
(***************************************************************************)
AsciiUpper == {"A", "B", "I"}
AsciiLower == {"a", "b", "i"}
\* U+0131 LATIN SMALL LETTER DOTLESS I: a letter whose uppercase is "I"
DotlessI == "dotless_i"
Letters == AsciiUpper \cup AsciiLower \cup {DotlessI}
Digits == {"0", "1", "2", "4"}

\* str.lower, one character
lower_char(c) ==
    CASE c = "A" -> "a"
      [] c = "B" -> "b"
      [] c = "I" -> "i"
      [] OTHER -> c

\* str.upper, one character
upper_char(c) ==
    CASE c = "a" -> "A"
      [] c = "b" -> "B"
      [] c = "i" -> "I"
      [] c = DotlessI -> "I"
      [] OTHER -> c

\* word.lower()
lower(s) == [i \in 1..Len(s) |-> lower_char(s[i])]

\* word.upper()
upper(s) == [i \in 1..Len(s) |-> upper_char(s[i])]

IsSpace(c) == c \in {" ", "\n"}
IsTerminator(c) == c \in {".", "!", "?"}
\* \w of the token pattern: letters, digits and the underscore
IsWordChar(c) == c \in Letters \cup Digits \cup {"_"}
IsDigit(c) == c \in Digits

(***************************************************************************)
(* Generic list helpers.                                                   *)
(***************************************************************************)
Front(s) == SubSeq(s, 1, Len(s) - 1)
Last(s) == s[Len(s)]

\* reduce(lambda a, b: b + a, lists, []): each list goes before the ones so far
RECURSIVE reduce_add_in_front(_)
reduce_add_in_front(lists) ==
    IF lists = <<>> THEN <<>> ELSE Last(lists) \o reduce_add_in_front(Front(lists))

\* reduce(add, lists, [])
RECURSIVE reduce_add(_)
reduce_add(lists) ==
    IF lists = <<>> THEN <<>> ELSE reduce_add(Front(lists)) \o Last(lists)

Min(S) == CHOOSE x \in S : \A y \in S : x <= y

\* sorted(indices) for a set of integers
RECURSIVE sorted(_)
sorted(S) == IF S = {} THEN <<>> ELSE <<Min(S)>> \o sorted(S \ {Min(S)})

\* set(list)
ToSet(s) == {s[i] : i \in 1..Len(s)}

(***************************************************************************)
(* dict / Counter, as sequences of <<key, value>> in insertion order.      *)
(***************************************************************************)
keys(d) == [i \in 1..Len(d) |-> d[i][1]]
HasKey(d, k) == \E i \in 1..Len(d) : d[i][1] = k
IndexOfKey(d, k) == CHOOSE i \in 1..Len(d) : d[i][1] = k

\* d.get(k, default)
dict_get(d, k, default) == IF HasKey(d, k) THEN d[IndexOfKey(d, k)][2] ELSE default

\* d[k] = v
dict_set(d, k, v) ==
    IF HasKey(d, k) THEN [d EXCEPT ![IndexOfKey(d, k)] = <<k, v>>]
    ELSE Append(d, <<k, v>>)

\* Counter(iterable)
RECURSIVE Counter(_)
Counter(ws) ==
    IF ws = <<>> THEN <<>>
    ELSE LET c == Counter(Front(ws))
             k == Last(ws)
         IN dict_set(c, k, dict_get(c, k, 0) + 1)

RECURSIVE CounterAddLeft(_, _)
CounterAddLeft(a, b) ==
    IF a = <<>> THEN <<>>
    ELSE LET r == CounterAddLeft(Front(a), b)
             e == Last(a)
             newcount == e[2] + dict_get(b, e[1], 0)
         IN IF newcount > 0 THEN Append(r, <<e[1], newcount>>) ELSE r

RECURSIVE CounterAddRight(_, _, _)
CounterAddRight(r, a, b) ==
    IF b = <<>> THEN r
    ELSE LET r1 == CounterAddRight(r, a, Front(b))
             e == Last(b)
         IN IF ~HasKey(a, e[1]) /\ e[2] > 0 THEN Append(r1, e) ELSE r1

\* a merge that keeps the right operand's count of a shared key instead of the sum
RECURSIVE counter_update(_, _)
counter_update(a, b) ==
    IF b = <<>> THEN a
    ELSE dict_set(counter_update(a, Front(b)), Last(b)[1], Last(b)[2])

\* a merge that keeps the left operand's count of a shared key instead of the sum
counter_setdefault(a, b) == CounterAddRight(a, a, b)

\* Counter.__add__: the left operand's keys first, then the right one's new keys
counter_add(a, b) == CounterAddRight(CounterAddLeft(a, b), a, b)

(***************************************************************************)
(* nltk.sent_tokenize, as DocumentMetrics.sentences uses it: a sentence    *)
(* ends at a terminator followed by whitespace or by the end of the text;  *)
(* the whitespace around a sentence is not part of it; a text without any  *)
(* non-space character has no sentence.                                    *)
(***************************************************************************)
RECURSIVE lstrip(_)
lstrip(s) == IF s # <<>> /\ IsSpace(s[1]) THEN lstrip(Tail(s)) ELSE s

RECURSIVE rstrip(_)
rstrip(s) == IF s # <<>> /\ IsSpace(Last(s)) THEN rstrip(Front(s)) ELSE s

IsSentenceEnd(t, i) ==
    /\ IsTerminator(t[i])
    /\ (i = Len(t) \/ IsSpace(t[i + 1]))

RECURSIVE sent_tokenize(_)
sent_tokenize(text) ==
    LET t == lstrip(text)
    IN IF t = <<>> THEN <<>>
       ELSE IF \E i \in 1..Len(t) : IsSentenceEnd(t, i)
            THEN LET e == Min({i \in 1..Len(t) : IsSentenceEnd(t, i)})
                 IN <<SubSeq(t, 1, e)>> \o sent_tokenize(SubSeq(t, e + 1, Len(t)))
            ELSE <<rstrip(t)>>

(***************************************************************************)
(* nltk.regexp_tokenize(sentence, TokenPattern.t0): re.findall of          *)
(*   (?:[A-Z]\.)+ | \w+(?:['-]\w+)* | \$?\d+(?:[\.,]\d+)?%?                *)
(* Each XxxEnd(s, i) is the index after the longest match of that part     *)
(* starting at i, or i itself when the part does not match there.          *)
(***************************************************************************)
RECURSIVE AbbreviationEnd(_, _)
AbbreviationEnd(s, i) ==
    IF i + 1 <= Len(s) /\ s[i] \in AsciiUpper /\ s[i + 1] = "."
    THEN AbbreviationEnd(s, i + 2) ELSE i

RECURSIVE WordRunEnd(_, _)
WordRunEnd(s, i) ==
    IF i <= Len(s) /\ IsWordChar(s[i]) THEN WordRunEnd(s, i + 1) ELSE i

RECURSIVE JoinedEnd(_, _)
JoinedEnd(s, j) ==
    IF j + 1 <= Len(s) /\ s[j] \in {"'", "-"} /\ IsWordChar(s[j + 1])
    THEN JoinedEnd(s, WordRunEnd(s, j + 1)) ELSE j

WordEnd(s, i) ==
    LET j == WordRunEnd(s, i) IN IF j > i THEN JoinedEnd(s, j) ELSE i

RECURSIVE DigitRunEnd(_, _)
DigitRunEnd(s, i) ==
    IF i <= Len(s) /\ IsDigit(s[i]) THEN DigitRunEnd(s, i + 1) ELSE i

NumberEnd(s, i) ==
    LET j == IF i <= Len(s) /\ s[i] = "$" THEN i + 1 ELSE i
        d == DigitRunEnd(s, j)
        f == IF d + 1 <= Len(s) /\ s[d] \in {".", ","} /\ IsDigit(s[d + 1])
             THEN DigitRunEnd(s, d + 1) ELSE d
        p == IF f <= Len(s) /\ s[f] = "%" THEN f + 1 ELSE f
    IN IF d > j THEN p ELSE i

\* the first alternative that matches at i wins
MatchEnd(s, i) ==
    IF AbbreviationEnd(s, i) > i THEN AbbreviationEnd(s, i)
    ELSE IF WordEnd(s, i) > i THEN WordEnd(s, i)
    ELSE NumberEnd(s, i)

RECURSIVE FindAll(_, _)
FindAll(s, i) ==
    IF i > Len(s) THEN <<>>
    ELSE LET e == MatchEnd(s, i)
         IN IF e > i THEN <<SubSeq(s, i, e - 1)>> \o FindAll(s, e)
            ELSE FindAll(s, i + 1)

regexp_tokenize(sentence) == FindAll(sentence, 1)

(***************************************************************************)
(* Document: a file path; the file system maps a path to None (no such     *)
(* file) or to the file's text.                                            *)
(***************************************************************************)
\* Document.read: open() raises FileNotFoundError for a missing path
Document_read(path) ==
    IF fs[path] = None THEN [exc |-> "FileNotFoundError", val |-> <<>>]
    ELSE [exc |-> NoExc, val |-> Get(fs[path])]

\* Document.exists
Document_exists(path) == fs[path] # None

\* Document.name
Document_name(path) == path.name

(***************************************************************************)
(* DocumentMetrics.  A world w = [dm, dsm, exc, val] carries the objects   *)
(* through a call: dm the DocumentMetrics objects, dsm the                 *)
(* DocumentsMetrics object, exc the exception being raised (NoExc when     *)
(* none), val the value returned.  Every operation leaves a world that is  *)
(* raising an exception as it is.                                          *)
(***************************************************************************)
\* DocumentMetrics.__init__
DocumentMetrics_init(doc) ==
    [ _doc |-> doc,
      _sentences |-> None,
      _sentence_words |-> None,
      _word_sentences_map |-> None,
      _words |-> None,
      _words_normalized |-> None,
      _word_frequencies |-> None,
      _vocabulary |-> None,
      _vocabulary_normalized |-> None ]

Raise(w, e) == [w EXCEPT !.exc = e]
Return(w, v) == IF w.exc # NoExc THEN w ELSE [w EXCEPT !.val = v]

\* [nltk.regexp_tokenize(' '.join(self.sentences), self._token_pattern)]: one list
\* of tokens for all the sentences
RECURSIVE join_with_spaces(_)
join_with_spaces(sentences) ==
    IF sentences = <<>> THEN <<>>
    ELSE IF Len(sentences) = 1 THEN sentences[1]
         ELSE join_with_spaces(Front(sentences)) \o <<" ">> \o Last(sentences)

tokenize_joined(sentences) == <<regexp_tokenize(join_with_spaces(sentences))>>

\* [nltk.regexp_tokenize(sentence, self._token_pattern) for sentence in self.sentences]
tokenize_each(sentences) ==
    [i \in 1..Len(sentences) |-> regexp_tokenize(sentences[i])]

\* word_sentence_map[k].add(x) on a defaultdict(set)
setdefault_add(m, k, x) == dict_set(m, k, dict_get(m, k, {}) \cup {x})

\* ... word_sentence_map[sentence_word].add(sentence_index): the word as written
RECURSIVE add_words_as_written(_, _, _)
add_words_as_written(m, sentence_words, sentence_index) ==
    IF sentence_words = <<>> THEN m
    ELSE setdefault_add(
             add_words_as_written(m, Front(sentence_words), sentence_index),
             Last(sentence_words), sentence_index)

\* for sentence_word in sentence_words: word_sentence_map[sentence_word.lower()].add(sentence_index)
RECURSIVE add_sentence_words(_, _, _)
add_sentence_words(m, sentence_words, sentence_index) ==
    IF sentence_words = <<>> THEN m
    ELSE setdefault_add(
             add_sentence_words(m, Front(sentence_words), sentence_index),
             lower(Last(sentence_words)), sentence_index)

\* for ... in enumerate(self.sentence_words, 1): the sentences counted from one
RECURSIVE enumerate_sentence_words_from_one(_)
enumerate_sentence_words_from_one(sentence_words) ==
    IF sentence_words = <<>> THEN <<>>
    ELSE add_sentence_words(
             enumerate_sentence_words_from_one(Front(sentence_words)),
             Last(sentence_words), Len(sentence_words))

\* for sentence_index, sentence_words in enumerate(self.sentence_words): ...
RECURSIVE enumerate_sentence_words(_)
enumerate_sentence_words(sentence_words) ==
    IF sentence_words = <<>> THEN <<>>
    ELSE add_sentence_words(
             enumerate_sentence_words(Front(sentence_words)),
             Last(sentence_words), Len(sentence_words) - 1)

\* {word: sorted(indices) for word, indices in m.items()}
sorted_values(m) == [i \in 1..Len(m) |-> <<m[i][1], sorted(m[i][2])>>]

\* DocumentMetrics._build_word_to_sentences_map
build_word_to_sentences_map(sentence_words) ==
    sorted_values(enumerate_sentence_words(sentence_words))

\* the right-hand side of the assignment to self.<field>, from the value v the
\* property it is computed from has returned
RightHandSide(field, v) ==
    CASE field = "_sentences" -> sent_tokenize(v)
      [] field = "_sentence_words" -> tokenize_each(v)
      [] field = "_word_sentences_map" -> build_word_to_sentences_map(v)
      [] field = "_word_frequencies" -> Counter(v)
      [] field \in {"_vocabulary", "_vocabulary_normalized"} -> ToSet(v)
      [] OTHER -> v

\* if self.<field> is None: self.<field> = <right-hand side>; return self.<field>
Assign(w, self, field) ==
    IF w.exc # NoExc THEN w
    ELSE [w EXCEPT !.dm[self][field] = Some(RightHandSide(field, w.val)),
                   !.val = RightHandSide(field, w.val)]

\* property document_name
DocumentMetrics_document_name(w, self) ==
    Return(w, Document_name(w.dm[self]._doc))

\* one more call of Document.read / of nltk.sent_tokenize made for object self
called(w, self, function) == [w EXCEPT !.calls[self][function] = @ + 1]

\* self._doc.read() with an unreadable document taken for one without text
read_doc_or_empty(w, self) ==
    IF w.exc # NoExc THEN w
    ELSE IF Document_read(w.dm[self]._doc).exc # NoExc
         THEN Return(called(w, self, "read"), <<>>)
         ELSE Return(called(w, self, "read"), Document_read(w.dm[self]._doc).val)

\* self._doc.read(): the text read, or the exception of Document.read
read_doc(w, self) ==
    IF w.exc # NoExc THEN w
    ELSE IF Document_read(w.dm[self]._doc).exc # NoExc
         THEN Raise(called(w, self, "read"), Document_read(w.dm[self]._doc).exc)
         ELSE Return(called(w, self, "read"), Document_read(w.dm[self]._doc).val)

\* nltk.sent_tokenize is entered with the text read
enter_sent_tokenize(w, self) ==
    IF w.exc # NoExc THEN w ELSE called(w, self, "sent_tokenize")

\* property sentences with the test `if not self._sentences`, which takes the
\* memoized [] of an empty document for a value not yet computed
DocumentMetrics_sentences_if_falsy(w, self) ==
    IF w.exc # NoExc THEN w
    ELSE IF w.dm[self]._sentences \in {None, Some(<<>>)}
         THEN Assign(enter_sent_tokenize(read_doc(w, self), self), self, "_sentences")
         ELSE Return(w, Get(w.dm[self]._sentences))

\* property sentences with self._sentences = [] set before the document is read:
\* a read that fails leaves the empty list behind
DocumentMetrics_sentences_set_before_read(w, self) ==
    IF w.exc # NoExc THEN w
    ELSE IF w.dm[self]._sentences = None
         THEN Assign(enter_sent_tokenize(
                         read_doc([w EXCEPT !.dm[self]._sentences = Some(<<>>)], self),
                         self),
                     self, "_sentences")
         ELSE Return(w, Get(w.dm[self]._sentences))

\* property sentences
DocumentMetrics_sentences(w, self) ==
    IF w.exc # NoExc THEN w
    ELSE IF w.dm[self]._sentences = None
         THEN Assign(enter_sent_tokenize(read_doc(w, self), self), self, "_sentences")
         ELSE Return(w, Get(w.dm[self]._sentences))

\* property sentence_words
DocumentMetrics_sentence_words(w, self) ==
    IF w.exc # NoExc THEN w
    ELSE IF w.dm[self]._sentence_words = None
         THEN Assign(DocumentMetrics_sentences(w, self), self, "_sentence_words")
         ELSE Return(w, Get(w.dm[self]._sentence_words))

\* property word_sentences_map
DocumentMetrics_word_sentences_map(w, self) ==
    IF w.exc # NoExc THEN w
    ELSE IF w.dm[self]._word_sentences_map = None
         THEN Assign(DocumentMetrics_sentence_words(w, self), self,
                     "_word_sentences_map")
         ELSE Return(w, Get(w.dm[self]._word_sentences_map))

\* [word.lower() for word in words]
lower_each(words) == [i \in 1..Len(words) |-> lower(words[i])]

\* reduce(add, <the lists w.val holds>) without the initial []: TypeError when
\* there is no list
flattened_without_initial(w, normalize) ==
    IF w.exc # NoExc THEN w
    ELSE IF w.val = <<>> THEN Raise(w, "TypeError")
         ELSE Return(w, IF normalize THEN lower_each(reduce_add(w.val))
                        ELSE reduce_add(w.val))

\* words = reduce(add, <the lists w.val holds>, []);
\* return [word.lower() for word in words] if normalize else words
flattened(w, normalize) ==
    Return(w, IF normalize THEN lower_each(reduce_add(w.val)) ELSE reduce_add(w.val))

\* DocumentMetrics._flattened_sentence_words
DocumentMetrics_flattened_sentence_words(w, self, normalize) ==
    flattened(DocumentMetrics_sentence_words(w, self), normalize)

\* property words
DocumentMetrics_words(w, self) ==
    IF w.exc # NoExc THEN w
    ELSE IF w.dm[self]._words = None
         THEN Assign(DocumentMetrics_flattened_sentence_words(w, self, FALSE),
                     self, "_words")
         ELSE Return(w, Get(w.dm[self]._words))

\* property words_normalized
DocumentMetrics_words_normalized(w, self) ==
    IF w.exc # NoExc THEN w
    ELSE IF w.dm[self]._words_normalized = None
         THEN Assign(DocumentMetrics_flattened_sentence_words(w, self, TRUE),
                     self, "_words_normalized")
         ELSE Return(w, Get(w.dm[self]._words_normalized))

\* property word_frequencies
DocumentMetrics_word_frequencies(w, self) ==
    IF w.exc # NoExc THEN w
    ELSE IF w.dm[self]._word_frequencies = None
         THEN Assign(DocumentMetrics_words_normalized(w, self), self,
                     "_word_frequencies")
         ELSE Return(w, Get(w.dm[self]._word_frequencies))

\* vocabulary with one memo field for both forms: the form asked for first stays
DocumentMetrics_vocabulary_one_memo(w, self, normalize) ==
    IF w.exc # NoExc THEN w
    ELSE IF w.dm[self]._vocabulary # None
         THEN Return(w, Get(w.dm[self]._vocabulary))
         ELSE IF normalize
              THEN Assign(DocumentMetrics_words_normalized(w, self), self, "_vocabulary")
              ELSE Assign(DocumentMetrics_words(w, self), self, "_vocabulary")

\* DocumentMetrics.vocabulary
DocumentMetrics_vocabulary(w, self, normalize) ==
    IF w.exc # NoExc THEN w
    ELSE IF normalize
         THEN IF w.dm[self]._vocabulary_normalized = None
              THEN Assign(DocumentMetrics_words_normalized(w, self), self,
                          "_vocabulary_normalized")
              ELSE Return(w, Get(w.dm[self]._vocabulary_normalized))
         ELSE IF w.dm[self]._vocabulary = None
              THEN Assign(DocumentMetrics_words(w, self), self, "_vocabulary")
              ELSE Return(w, Get(w.dm[self]._vocabulary))

\* a lookup that takes the query word as it is given
lookup_key_as_given(word) == word

\* the key a lookup uses for a query word: word.lower()
lookup_key(word) == lower(word)

\* <the dict w.val holds>[key]: a missing key raises KeyError
subscript_key(w, key, default) ==
    IF w.exc # NoExc THEN w
    ELSE IF HasKey(w.val, key) THEN Return(w, dict_get(w.val, key, default))
         ELSE Raise(w, "KeyError")

\* <the dict w.val holds>.get(key, default)
get_or(w, key, default) == Return(w, dict_get(w.val, key, default))

\* DocumentMetrics.word_frequency
DocumentMetrics_word_frequency(w, self, word) ==
    get_or(DocumentMetrics_word_frequencies(w, self), lookup_key(word), 0)

\* [a_list[index] for index in indices]; an index outside the list raises IndexError
subscript_each(w, a_list, indices) ==
    IF w.exc # NoExc THEN w
    ELSE IF \E i \in 1..Len(indices) : indices[i] \notin 0..(Len(a_list) - 1)
         THEN Raise(w, "IndexError")
         ELSE Return(w, [i \in 1..Len(indices) |-> a_list[indices[i] + 1]])

\* [self.sentences[index] for index in sentence_indices], w.val holding the indices
sentences_at(w, self) ==
    subscript_each(DocumentMetrics_sentences(w, self),
                   DocumentMetrics_sentences(w, self).val, w.val)

\* DocumentMetrics.sentences_containing_word
DocumentMetrics_sentences_containing_word(w, self, word) ==
    sentences_at(get_or(DocumentMetrics_word_sentences_map(w, self),
                        lookup_key(word), <<>>), self)

(***************************************************************************)
(* DocumentsMetrics: _docs_metrics is a list of references (indices into   *)
(* dm) to DocumentMetrics objects.                                         *)
(***************************************************************************)
\* DocumentsMetrics.__init__
DocumentsMetrics_init(docs_metrics) ==
    [ _docs_metrics |-> docs_metrics,
      _word_frequencies |-> None,
      _word_documents_map |-> None ]

\* the element just computed put in front of the list so far
collect_in_front(w, built) == Return(w, <<w.val>> \o built)

\* one more element of a list comprehension: built is the list so far, w.val the
\* element just computed
collect(w, built) == Return(w, Append(built, w.val))

\* dm.word_frequencies of one more document, w.val holding the list so far
next_word_frequencies(w, object) ==
    collect(DocumentMetrics_word_frequencies(w, object), w.val)

\* [dm.word_frequencies for dm in self._docs_metrics], the first k documents
RECURSIVE each_word_frequencies(_, _)
each_word_frequencies(w, k) ==
    IF k = 0 THEN Return(w, <<>>)
    ELSE next_word_frequencies(each_word_frequencies(w, k - 1), w.dsm._docs_metrics[k])

\* reduce(add, counters, Counter())
RECURSIVE reduce_counter_add(_)
reduce_counter_add(counters) ==
    IF counters = <<>> THEN <<>>
    ELSE counter_add(reduce_counter_add(Front(counters)), Last(counters))

\* self._word_frequencies = reduce(add, <the list w.val holds>, Counter())
assign_word_frequencies(w) ==
    IF w.exc # NoExc THEN w
    ELSE [w EXCEPT !.dsm._word_frequencies = Some(reduce_counter_add(w.val)),
                   !.val = reduce_counter_add(w.val)]

\* property DocumentsMetrics.word_frequencies
DocumentsMetrics_word_frequencies(w) ==
    IF w.exc # NoExc THEN w
    ELSE IF w.dsm._word_frequencies = None
         THEN assign_word_frequencies(each_word_frequencies(w, Len(w.dsm._docs_metrics)))
         ELSE Return(w, Get(w.dsm._word_frequencies))

\* for word in document.word_sentences_map.keys(): map[word].add(document_index)
RECURSIVE add_document_words(_, _, _)
add_document_words(m, words, document_index) ==
    IF words = <<>> THEN m
    ELSE setdefault_add(add_document_words(m, Front(words), document_index),
                        Last(words), document_index)

\* the loop over the words of a document left after its first word
add_document_first_word(w, built, document_index) ==
    Return(w, add_document_words(built, SubSeq(keys(w.val), 1, 1), document_index))

\* the words of one more document, built being the defaultdict(set) so far and
\* w.val the document's word_sentences_map
add_document(w, built, document_index) ==
    Return(w, add_document_words(built, keys(w.val), document_index))

\* enumerate(self._docs_metrics, 1): the documents numbered from one
next_document_from_one(w, object, document_index) ==
    add_document(DocumentMetrics_word_sentences_map(w, object), w.val,
                 document_index + 1)

next_document(w, object, document_index) ==
    add_document(DocumentMetrics_word_sentences_map(w, object), w.val, document_index)

\* for document_index, document in enumerate(self._docs_metrics): ..., the first
\* k documents
RECURSIVE enumerate_documents(_, _)
enumerate_documents(w, k) ==
    IF k = 0 THEN Return(w, <<>>)
    ELSE next_document(enumerate_documents(w, k - 1), w.dsm._docs_metrics[k], k - 1)

\* {word: sorted(indices) ...} of the defaultdict(set) w.val holds
return_sorted_values(w) == Return(w, sorted_values(w.val))

\* DocumentsMetrics._build_word_to_document_map
DocumentsMetrics_build_word_to_document_map(w) ==
    return_sorted_values(enumerate_documents(w, Len(w.dsm._docs_metrics)))

\* self._word_documents_map = <the dict w.val holds>
assign_word_documents_map(w) ==
    IF w.exc # NoExc THEN w ELSE [w EXCEPT !.dsm._word_documents_map = Some(w.val)]

\* property DocumentsMetrics.word_document_map
DocumentsMetrics_word_document_map(w) ==
    IF w.exc # NoExc THEN w
    ELSE IF w.dsm._word_documents_map = None
         THEN assign_word_documents_map(DocumentsMetrics_build_word_to_document_map(w))
         ELSE Return(w, Get(w.dsm._word_documents_map))

\* DocumentsMetrics.word_frequency
DocumentsMetrics_word_frequency(w, word) ==
    get_or(DocumentsMetrics_word_frequencies(w), lookup_key(word), 0)

\* [self._docs_metrics[index] for index in document_metrics_indices], w.val
\* holding the indices
docs_metrics_at(w) == subscript_each(w, w.dsm._docs_metrics, w.val)

\* [<object>.document_name for ...], w.val holding the objects
document_names(w) ==
    Return(w, [i \in 1..Len(w.val) |-> Document_name(w.dm[w.val[i]]._doc)])

\* DocumentsMetrics.document_names_containing_word
DocumentsMetrics_document_names_containing_word(w, word) ==
    document_names(docs_metrics_at(
        get_or(DocumentsMetrics_word_document_map(w), lookup_key(word), <<>>)))

\* doc_metrics.sentences_containing_word(word) of one more document, w.val holding
\* the list so far
next_sentences_containing_word(w, object, word) ==
    collect(DocumentMetrics_sentences_containing_word(w, object, word), w.val)

\* [doc_metrics.sentences_containing_word(word) for doc_metrics in documents_metrics],
\* the first k of them
RECURSIVE each_sentences_containing_word(_, _, _, _)
each_sentences_containing_word(w, objects, word, k) ==
    IF k = 0 THEN Return(w, <<>>)
    ELSE next_sentences_containing_word(
             each_sentences_containing_word(w, objects, word, k - 1), objects[k], word)

\* sentences = [...]; return reduce(add, sentences, []), w.val holding the objects
concatenated_sentences(w, word) ==
    IF w.exc # NoExc THEN w
    ELSE Return(each_sentences_containing_word(w, w.val, word, Len(w.val)),
                reduce_add(each_sentences_containing_word(w, w.val, word, Len(w.val)).val))

\* DocumentsMetrics.sentences_containing_word
DocumentsMetrics_sentences_containing_word(w, word) ==
    concatenated_sentences(
        docs_metrics_at(get_or(DocumentsMetrics_word_document_map(w),
                               lookup_key(word), <<>>)),
        lookup_key(word))

\* ... if lower <= len(word) < upper
RECURSIVE filter_below_upper(_, _, _, _)
filter_below_upper(frequencies, vocabulary, lower_bound, upper_bound) ==
    IF vocabulary = <<>> THEN <<>>
    ELSE IF lower_bound <= Len(Last(vocabulary)) /\ Len(Last(vocabulary)) < upper_bound
         THEN Append(filter_below_upper(frequencies, Front(vocabulary),
                                        lower_bound, upper_bound),
                     <<Last(vocabulary),
                       dict_get(frequencies, lookup_key(Last(vocabulary)), 0)>>)
         ELSE filter_below_upper(frequencies, Front(vocabulary), lower_bound, upper_bound)

\* [(word, self.word_frequency(word)) for word in vocabulary if lower <= len(word) <= upper]
RECURSIVE filter_by_length(_, _, _, _)
filter_by_length(frequencies, vocabulary, lower_bound, upper_bound) ==
    IF vocabulary = <<>> THEN <<>>
    ELSE IF lower_bound <= Len(Last(vocabulary)) /\ Len(Last(vocabulary)) <= upper_bound
         THEN Append(filter_by_length(frequencies, Front(vocabulary),
                                      lower_bound, upper_bound),
                     <<Last(vocabulary),
                       dict_get(frequencies, lookup_key(Last(vocabulary)), 0)>>)
         ELSE filter_by_length(frequencies, Front(vocabulary), lower_bound, upper_bound)

\* one step of an ascending sort that is reversed afterwards: e goes before the
\* entries of its own frequency
RECURSIVE insert_before_equals(_, _)
insert_before_equals(common, e) ==
    IF common = <<>> THEN <<e>>
    ELSE IF Last(common)[2] > e[2] THEN Append(common, e)
         ELSE Append(insert_before_equals(Front(common), e), Last(common))

\* one step of the stable descending sort: e goes behind every entry whose
\* frequency is at least its own
RECURSIVE insert_descending(_, _)
insert_descending(common, e) ==
    IF common = <<>> THEN <<e>>
    ELSE IF Last(common)[2] >= e[2] THEN Append(common, e)
         ELSE Append(insert_descending(Front(common), e), Last(common))

\* common.sort(key=lambda tup: tup[frequency_index], reverse=True)
RECURSIVE sort_descending(_)
sort_descending(common) ==
    IF common = <<>> THEN <<>>
    ELSE insert_descending(sort_descending(Front(common)), Last(common))

Max2(a, b) == IF a >= b THEN a ELSE b
Min2(a, b) == IF a <= b THEN a ELSE b

\* common[:n + 1]
slice_through(common, n) ==
    IF n = None THEN common ELSE SubSeq(common, 1, Min2(Get(n) + 1, Len(common)))

\* common if n is None else common[:n]
slice_to(common, n) ==
    IF n = None THEN common
    ELSE IF Get(n) >= 0 THEN SubSeq(common, 1, Min2(Get(n), Len(common)))
         ELSE SubSeq(common, 1, Max2(Len(common) + Get(n), 0))

\* the body of most_common_words_filtered_by_length, w.val holding self.word_frequencies
most_common(w, length_interval, n) ==
    Return(w, slice_to(sort_descending(
                  filter_by_length(w.val, keys(w.val),
                                   length_interval[1], length_interval[2])), n))

\* DocumentsMetrics.most_common_words_filtered_by_length
DocumentsMetrics_most_common_words_filtered_by_length(w, length_interval, n) ==
    most_common(DocumentsMetrics_word_frequencies(w), length_interval, n)

(***************************************************************************)
(* The documents of a run and the inputs of the calls.                     *)
(***************************************************************************)
PathZ == [parent |-> "documents", name |-> "z.txt"]
PathA == [parent |-> "documents", name |-> "a.txt"]
PathE == [parent |-> "documents", name |-> "empty.txt"]
PathM == [parent |-> "documents", name |-> "mixed.txt"]
PathN == [parent |-> "documents", name |-> "numbers.txt"]

\* "a Ab. A ab ab!"
TextZ == <<"a", " ", "A", "b", ".", " ", "A", " ", "a", "b", " ", "a", "b", "!">>
\* "b ab.\ni aba aba."
TextA == <<"b", " ", "a", "b", ".", "\n", "i", " ", "a", "b", "a", " ", "a", "b", "a", ".">>
TextE == <<>>
\* "i a-b. $1.2% a 12 A? I'b a I.B."  (the first i is the dotless one)
TextM == <<DotlessI, " ", "a", "-", "b", ".", " ",
           "$", "1", ".", "2", "%", " ", "a", " ", "1", "2", " ", "A", "?", " ",
           "I", "'", "b", " ", "a", " ", "I", ".", "B", ".">>

\* "$4 $1.2 $1,2% 1.2 2% 12"
TextN == <<"$", "4", " ", "$", "1", ".", "2", " ", "$", "1", ",", "2", "%", " ",
           "1", ".", "2", " ", "2", "%", " ", "1", "2">>

\* the documents a DocumentsMetrics is built from, and all documents
CorpusPaths == <<PathZ, PathA, PathE>>
Paths == {PathZ, PathA, PathE, PathM, PathN}

FileSystem ==
    [p \in Paths |->
        CASE p = PathZ -> Some(TextZ)
          [] p = PathA -> Some(TextA)
          [] p = PathE -> Some(TextE)
          [] p = PathM -> Some(TextM)
          [] p = PathN -> Some(TextN)]

\* a path with no file, and a file system that has it
PathMissing == [parent |-> "documents", name |-> "missing.txt"]

FileSystemWithMissing ==
    [p \in Paths \cup {PathMissing} |-> IF p = PathMissing THEN None ELSE FileSystem[p]]

\* the documents a DocumentsMetrics is built from when one of them has no file
CorpusPathsWithMissing == <<PathZ, PathMissing, PathA>>

\* the words looked up
QueryWords ==
    { <<"a">>, <<"A">>, <<"a", "b">>, <<"A", "B">>, <<"i">>, <<"I">>,
      <<DotlessI>>, <<"b", "a">> }

\* the length intervals asked for, lower > upper included
Intervals == { <<1, 1>>, <<1, 2>>, <<2, 3>>, <<0, 9>>, <<3, 1>> }

\* the limits asked for: None or a number of entries
Limits == {None} \cup {Some(n) : n \in 0..MaxLimit}

\* lists of at most n elements of S
ListsUpTo(S, n) == UNION {[1..k -> S] : k \in 0..n}

(***************************************************************************)
(* State: fs the file system, dm the DocumentMetrics objects, dsm the      *)
(* DocumentsMetrics object, ret the last call with its outcome.            *)
(***************************************************************************)
NoCall ==
    [op |-> "none", self |-> 0, word |-> <<>>, normalize |-> FALSE,
     interval |-> <<0, 0>>, n |-> None, exc |-> NoExc, val |-> <<>>]

World == [dm |-> dm, dsm |-> dsm, calls |-> calls, exc |-> NoExc, val |-> <<>>]

\* no call made yet for any of the objects ds
NoCalls(ds) == [d \in ds |-> [read |-> 0, sent_tokenize |-> 0]]

\* no run of the command line
NoRun ==
    [pc |-> "none", word_length_interval |-> <<0, 0>>, n_common_words |-> 0,
     max_sentence_column_width |-> 0, words_of_interest |-> <<>>, rows |-> 0]

\* the objects after the call and what the caller sees of it
Effect(w, call) ==
    /\ \A d \in DOMAIN w.calls : w.calls[d].read <= MaxReads
    /\ dm' = w.dm
    /\ dsm' = w.dsm
    /\ calls' = w.calls
    /\ ret' = [call EXCEPT !.exc = w.exc,
                           !.val = IF w.exc # NoExc THEN <<>> ELSE w.val]
    /\ UNCHANGED fs

\* a call made by a caller other than the command line
Outcome(w, call) == Effect(w, call) /\ UNCHANGED cli

\* EigenController.metrics over the files of CorpusPaths, in any order and number
Init ==
    /\ fs = FileSystem
    /\ dm = [i \in 1..Len(CorpusPaths) |-> DocumentMetrics_init(CorpusPaths[i])]
    /\ dsm \in {DocumentsMetrics_init(l) : l \in ListsUpTo(1..Len(CorpusPaths), MaxDocs)}
    /\ ret = NoCall
    /\ calls = NoCalls(1..Len(CorpusPaths))
    /\ cli = NoRun

Call_DocumentsMetrics_word_frequency ==
    \E word \in QueryWords :
        Outcome(DocumentsMetrics_word_frequency(World, word),
                [NoCall EXCEPT !.op = "DocumentsMetrics.word_frequency", !.word = word])

Call_DocumentsMetrics_document_names_containing_word ==
    \E word \in QueryWords :
        Outcome(DocumentsMetrics_document_names_containing_word(World, word),
                [NoCall EXCEPT !.op = "DocumentsMetrics.document_names_containing_word", !.word = word])

Call_DocumentsMetrics_sentences_containing_word ==
    \E word \in QueryWords :
        Outcome(DocumentsMetrics_sentences_containing_word(World, word),
                [NoCall EXCEPT !.op = "DocumentsMetrics.sentences_containing_word", !.word = word])

Call_DocumentsMetrics_most_common_words_filtered_by_length ==
    \E length_interval \in Intervals, n \in Limits :
        Outcome(DocumentsMetrics_most_common_words_filtered_by_length(
                    World, length_interval, n),
                [NoCall EXCEPT !.op = "DocumentsMetrics.most_common_words_filtered_by_length",
                               !.interval = length_interval, !.n = n])

Next ==
    \/ Call_DocumentsMetrics_word_frequency
    \/ Call_DocumentsMetrics_document_names_containing_word
    \/ Call_DocumentsMetrics_sentences_containing_word
    \/ Call_DocumentsMetrics_most_common_words_filtered_by_length

Spec == Init /\ [][Next]_vars

\* a DocumentsMetrics over the files of CorpusPathsWithMissing, in any order and
\* number: the same calls, made on a corpus that may hold an unreadable document
InitWithMissing ==
    /\ fs = FileSystemWithMissing
    /\ dm = [i \in 1..Len(CorpusPathsWithMissing) |->
                DocumentMetrics_init(CorpusPathsWithMissing[i])]
    /\ dsm \in {DocumentsMetrics_init(l) :
                  l \in ListsUpTo(1..Len(CorpusPathsWithMissing), MaxDocs)}
    /\ ret = NoCall
    /\ calls = NoCalls(1..Len(CorpusPathsWithMissing))
    /\ cli = NoRun

SpecWithMissing == InitWithMissing /\ [][Next]_vars

\* one DocumentMetrics, over any of the files, and no corpus
InitDocument ==
    /\ fs = FileSystem
    /\ dm \in {<<DocumentMetrics_init(p)>> : p \in Paths}
    /\ dsm = DocumentsMetrics_init(<<>>)
    /\ ret = NoCall
    /\ calls = NoCalls({1})
    /\ cli = NoRun

Call_DocumentMetrics_document_name ==
    Outcome(DocumentMetrics_document_name(World, 1),
            [NoCall EXCEPT !.op = "DocumentMetrics.document_name", !.self = 1])

Call_DocumentMetrics_sentences ==
    Outcome(DocumentMetrics_sentences(World, 1),
            [NoCall EXCEPT !.op = "DocumentMetrics.sentences", !.self = 1])

Call_DocumentMetrics_sentence_words ==
    Outcome(DocumentMetrics_sentence_words(World, 1),
            [NoCall EXCEPT !.op = "DocumentMetrics.sentence_words", !.self = 1])

Call_DocumentMetrics_word_sentences_map ==
    Outcome(DocumentMetrics_word_sentences_map(World, 1),
            [NoCall EXCEPT !.op = "DocumentMetrics.word_sentences_map", !.self = 1])

Call_DocumentMetrics_words ==
    Outcome(DocumentMetrics_words(World, 1),
            [NoCall EXCEPT !.op = "DocumentMetrics.words", !.self = 1])

Call_DocumentMetrics_words_normalized ==
    Outcome(DocumentMetrics_words_normalized(World, 1),
            [NoCall EXCEPT !.op = "DocumentMetrics.words_normalized", !.self = 1])

Call_DocumentMetrics_word_frequencies ==
    Outcome(DocumentMetrics_word_frequencies(World, 1),
            [NoCall EXCEPT !.op = "DocumentMetrics.word_frequencies", !.self = 1])

Call_DocumentMetrics_vocabulary ==
    \E normalize \in BOOLEAN :
        Outcome(DocumentMetrics_vocabulary(World, 1, normalize),
                [NoCall EXCEPT !.op = "DocumentMetrics.vocabulary", !.self = 1,
                               !.normalize = normalize])

Call_DocumentMetrics_word_frequency ==
    \E word \in QueryWords :
        Outcome(DocumentMetrics_word_frequency(World, 1, word),
                [NoCall EXCEPT !.op = "DocumentMetrics.word_frequency", !.self = 1,
                               !.word = word])

Call_DocumentMetrics_sentences_containing_word ==
    \E word \in QueryWords :
        Outcome(DocumentMetrics_sentences_containing_word(World, 1, word),
                [NoCall EXCEPT !.op = "DocumentMetrics.sentences_containing_word",
                               !.self = 1, !.word = word])

NextDocument ==
    \/ Call_DocumentMetrics_document_name
    \/ Call_DocumentMetrics_sentences
    \/ Call_DocumentMetrics_sentence_words
    \/ Call_DocumentMetrics_word_sentences_map
    \/ Call_DocumentMetrics_words
    \/ Call_DocumentMetrics_words_normalized
    \/ Call_DocumentMetrics_word_frequencies
    \/ Call_DocumentMetrics_vocabulary
    \/ Call_DocumentMetrics_word_frequency
    \/ Call_DocumentMetrics_sentences_containing_word

SpecDocument == InitDocument /\ [][NextDocument]_vars

\* one DocumentMetrics, over a file with text, the empty file or no file, and a
\* DocumentsMetrics that holds it once or twice: the calls of both, in any order
InitShared ==
    /\ fs = FileSystemWithMissing
    /\ dm \in {<<DocumentMetrics_init(p)>> : p \in {PathZ, PathE, PathMissing}}
    /\ dsm \in {DocumentsMetrics_init(<<1>>), DocumentsMetrics_init(<<1, 1>>)}
    /\ ret = NoCall
    /\ calls = NoCalls({1})
    /\ cli = NoRun

NextShared == NextDocument \/ Next

SpecShared == InitShared /\ [][NextShared]_vars

\* a DocumentMetrics over a path without a file, called directly, and a
\* DocumentsMetrics over it and over one with a file, in any order and number
CorpusPathsMissingFirst == <<PathMissing, PathZ>>

InitSharedWithMissing ==
    /\ fs = FileSystemWithMissing
    /\ dm = [i \in 1..Len(CorpusPathsMissingFirst) |->
                DocumentMetrics_init(CorpusPathsMissingFirst[i])]
    /\ dsm \in {DocumentsMetrics_init(l) :
                  l \in ListsUpTo(1..Len(CorpusPathsMissingFirst), MaxDocs)}
    /\ ret = NoCall
    /\ calls = NoCalls(1..Len(CorpusPathsMissingFirst))
    /\ cli = NoRun

SpecSharedWithMissing == InitSharedWithMissing /\ [][NextShared]_vars

(***************************************************************************)
(* The command line: cli.py main and EigenController.run.  cli is the      *)
(* frame of the run: pc its position, the three options, the words of      *)
(* interest and the number of table rows built so far.                     *)
(***************************************************************************)
\* word_length_interval_validation
word_length_interval_validation(interval) ==
    IF interval[1] > interval[2] THEN [exc |-> "BadParameter", val |-> <<>>]
    ELSE [exc |-> NoExc, val |-> interval]

\* a validation that lets every number of common words through
n_common_words_unchecked(n_common_words) == [exc |-> NoExc, val |-> n_common_words]

\* n_common_words_validation
n_common_words_validation(n_common_words) ==
    IF n_common_words < 1 THEN [exc |-> "BadParameter", val |-> <<>>]
    ELSE [exc |-> NoExc, val |-> n_common_words]

\* max_sentence_column_width_validation
max_sentence_column_width_validation(column_width) ==
    IF column_width < 40 THEN [exc |-> "BadParameter", val |-> <<>>]
    ELSE [exc |-> NoExc, val |-> column_width]

\* the options a run is started with
CliIntervals == {<<lo, up>> : lo, up \in 1..3}
CliLimits == -1..MaxLimit
CliWidths == {39, 40}

\* the entries of the documents folder, and Path.suffix of each
PathReadme == [parent |-> "documents", name |-> "README.md"]
Folder == {PathZ, PathA, PathE, PathReadme}
suffix(path) == IF path = PathReadme THEN ".md" ELSE ".txt"

\* the orders iterdir() may list the entries in
Listings ==
    {l \in [1..Cardinality(Folder) -> Folder] :
        \A i, j \in 1..Cardinality(Folder) : l[i] = l[j] => i = j}

\* EigenController.text_file_paths: the listed entries with suffix .txt
RECURSIVE text_file_paths(_)
text_file_paths(listing) ==
    IF listing = <<>> THEN <<>>
    ELSE IF suffix(Last(listing)) = ".txt"
         THEN Append(text_file_paths(Front(listing)), Last(listing))
         ELSE text_file_paths(Front(listing))

\* nothing of the core is constructed before main is entered
InitCli ==
    /\ fs = FileSystem
    /\ dm = <<>>
    /\ dsm = None
    /\ ret = NoCall
    /\ calls = NoCalls({})
    /\ cli = NoRun

\* typer parses the options and runs their callbacks; a BadParameter ends the
\* run before main is entered
Cli_parse ==
    /\ cli.pc = "none"
    /\ \E interval \in CliIntervals, n \in CliLimits, width \in CliWidths :
          /\ cli' = [cli EXCEPT
                        !.pc = IF /\ word_length_interval_validation(interval).exc = NoExc
                                  /\ n_common_words_validation(n).exc = NoExc
                                  /\ max_sentence_column_width_validation(width).exc = NoExc
                               THEN "main" ELSE "exit",
                        !.word_length_interval = interval,
                        !.n_common_words = n,
                        !.max_sentence_column_width = width]
          /\ ret' = [NoCall EXCEPT
                        !.op = "cli.main",
                        !.exc = IF /\ word_length_interval_validation(interval).exc = NoExc
                                   /\ n_common_words_validation(n).exc = NoExc
                                   /\ max_sentence_column_width_validation(width).exc = NoExc
                                THEN NoExc ELSE "BadParameter"]
    /\ UNCHANGED <<fs, dm, dsm, calls>>

\* main: control.run(...), which starts with self.metrics(self.text_file_paths())
Run_metrics ==
    /\ cli.pc = "main"
    /\ \E listing \in Listings :
          /\ dm' = [i \in 1..Len(text_file_paths(listing)) |->
                       DocumentMetrics_init(text_file_paths(listing)[i])]
          /\ dsm' = DocumentsMetrics_init(
                        [i \in 1..Len(text_file_paths(listing)) |-> i])
          /\ calls' = NoCalls(1..Len(text_file_paths(listing)))
    /\ cli' = [cli EXCEPT !.pc = "most_common"]
    /\ ret' = [NoCall EXCEPT !.op = "EigenController.metrics"]
    /\ UNCHANGED fs

\* what is left of the run after the call: an exception ends it
Continue(w, call, frame) ==
    /\ Effect(w, call)
    /\ cli' = IF w.exc # NoExc THEN [cli EXCEPT !.pc = "exit"] ELSE frame

\* the run after most_common_words_filtered_by_length has returned val
AfterMostCommon(w, call) ==
    Continue(w, call,
             [cli EXCEPT !.pc = IF w.val = <<>> THEN "display" ELSE "names",
                         !.words_of_interest = w.val])

\* words_of_interest = metrics.most_common_words_filtered_by_length(...)
Run_most_common ==
    /\ cli.pc = "most_common"
    /\ AfterMostCommon(
          DocumentsMetrics_most_common_words_filtered_by_length(
              World, cli.word_length_interval, Some(cli.n_common_words)),
          [NoCall EXCEPT !.op = "DocumentsMetrics.most_common_words_filtered_by_length",
                         !.interval = cli.word_length_interval,
                         !.n = Some(cli.n_common_words)])

\* the word of the row the loop is at
RowWord == cli.words_of_interest[cli.rows + 1][1]

\* metrics.document_names_containing_word(word) of the row
Run_document_names ==
    /\ cli.pc = "names"
    /\ Continue(DocumentsMetrics_document_names_containing_word(World, RowWord),
                [NoCall EXCEPT !.op = "DocumentsMetrics.document_names_containing_word",
                               !.word = RowWord],
                [cli EXCEPT !.pc = "sentences"])

\* metrics.sentences_containing_word(word) of the row, and table.append(...)
Run_sentences ==
    /\ cli.pc = "sentences"
    /\ Continue(DocumentsMetrics_sentences_containing_word(World, RowWord),
                [NoCall EXCEPT !.op = "DocumentsMetrics.sentences_containing_word",
                               !.word = RowWord],
                [cli EXCEPT !.pc = IF cli.rows + 1 = Len(cli.words_of_interest)
                                   THEN "display" ELSE "names",
                            !.rows = cli.rows + 1])

\* EigenCLIView(...).display()
Run_display ==
    /\ cli.pc = "display"
    /\ cli' = [cli EXCEPT !.pc = "done"]
    /\ ret' = [NoCall EXCEPT !.op = "EigenCLIView.display"]
    /\ UNCHANGED <<fs, dm, dsm, calls>>

NextCli ==
    \/ Cli_parse
    \/ Run_metrics
    \/ Run_most_common
    \/ Run_document_names
    \/ Run_sentences
    \/ Run_display

SpecCli == InitCli /\ [][NextCli]_vars

(***************************************************************************)
(* What the properties speak of, read off the file system and the          *)
(* current objects.                                                        *)
(***************************************************************************)
\* the DocumentMetrics objects of the corpus, in the order they were supplied
Documents == dsm._docs_metrics

\* the normalized words of the text object d reads
NormalizedWordsOf(d) ==
    lower_each(reduce_add(tokenize_each(sent_tokenize(Get(fs[dm[d]._doc])))))

\* word occurs in the document of object d, whatever its case
OccursIn(word, d) == lower(word) \in ToSet(NormalizedWordsOf(d))

OccursInCorpus(word) == \E k \in 1..Len(Documents) : OccursIn(word, Documents[k])

\* what a call made in the current state returns
DocWordFrequency(d, word) == DocumentMetrics_word_frequency(World, d, word)
DocSentencesContainingWord(d, word) ==
    DocumentMetrics_sentences_containing_word(World, d, word)
CorpusWordFrequency(word) == DocumentsMetrics_word_frequency(World, word)
CorpusDocumentNames(word) == DocumentsMetrics_document_names_containing_word(World, word)
CorpusSentences(word) == DocumentsMetrics_sentences_containing_word(World, word)

RECURSIVE SumOfDocFrequencies(_, _)
SumOfDocFrequencies(word, k) ==
    IF k = 0 THEN 0
    ELSE SumOfDocFrequencies(word, k - 1) + DocWordFrequency(Documents[k], word).val

Returned(op) == ret.op = op /\ ret.exc = NoExc

(***************************************************************************)
(* C1: whenever corpus.wordFrequency(w) has returned, its value is the sum *)
(* of doc.wordFrequency(w) over the documents of the corpus, a document    *)
(* that is listed twice counted twice, and 0 for the empty corpus.         *)
(***************************************************************************)
C1_FrequencyIsSumOverDocuments ==
    ret.op = "DocumentsMetrics.word_frequency" =>
        /\ ret.exc = NoExc
        /\ ret.val = SumOfDocFrequencies(ret.word, Len(Documents))

\* a word counted in a corpus that lists the same document twice
C1_Witness ==
    /\ Returned("DocumentsMetrics.word_frequency")
    /\ Len(Documents) = 2 /\ Documents[1] = Documents[2]
    /\ ret.val >= 2

(***************************************************************************)
(* C2: the lookups do not depend on the case of the query word.  As        *)
(* claimed: every lookup of w, of w.upper() and of w.lower() gives the     *)
(* same result.  As amended: every lookup of w and of w.lower() gives the  *)
(* same result, and so does the lookup of w.upper() for every word whose   *)
(* uppercase form lowercases to w.lower().                                 *)
(***************************************************************************)
SameResult(w1, w2) == w1.exc = w2.exc /\ w1.val = w2.val

\* the lookups of a DocumentMetrics give for v what they give for w, for every
\* document of the corpus
SameDocumentLookups(w, v) ==
    w # v =>
        \A d \in ToSet(Documents) :
            /\ SameResult(DocWordFrequency(d, w), DocWordFrequency(d, v))
            /\ SameResult(DocSentencesContainingWord(d, w),
                          DocSentencesContainingWord(d, v))

\* the lookup of the corpus that has returned gives for v what it gave
SameAsReturned(v) ==
    /\ ret.op = "DocumentsMetrics.word_frequency" => SameResult(ret, CorpusWordFrequency(v))
    /\ ret.op = "DocumentsMetrics.document_names_containing_word" =>
          SameResult(ret, CorpusDocumentNames(v))
    /\ ret.op = "DocumentsMetrics.sentences_containing_word" => SameResult(ret, CorpusSentences(v))

UpperRoundTrips(w) == lower(upper(w)) = lower(w)

C2_AllCaseVariantsAgree ==
    /\ SameAsReturned(upper(ret.word)) /\ SameAsReturned(lower(ret.word))
    /\ \A w \in QueryWords :
          SameDocumentLookups(w, upper(w)) /\ SameDocumentLookups(w, lower(w))

C2_CaseVariantsAgree ==
    /\ SameAsReturned(lower(ret.word))
    /\ UpperRoundTrips(ret.word) => SameAsReturned(upper(ret.word))
    /\ \A w \in QueryWords :
          /\ SameDocumentLookups(w, lower(w))
          /\ UpperRoundTrips(w) => SameDocumentLookups(w, upper(w))

\* an uppercase query has found a word the documents hold in another case
C2_Witness ==
    /\ Returned("DocumentsMetrics.word_frequency")
    /\ ret.word = <<"A", "B">>
    /\ ret.val > 0

(***************************************************************************)
(* C3: a lookup of a word that occurs nowhere in the corpus (in the        *)
(* document) raises nothing and returns 0 or the empty list, the empty     *)
(* document and the empty corpus included.                                 *)
(***************************************************************************)
IsResult(w, v) == w.exc = NoExc /\ w.val = v

C3_AbsentWordGivesEmptyResult ==
    /\ (ret.op = "DocumentsMetrics.word_frequency" /\ ~OccursInCorpus(ret.word)) =>
          IsResult(ret, 0)
    /\ (ret.op \in {"DocumentsMetrics.document_names_containing_word", "DocumentsMetrics.sentences_containing_word"}
          /\ ~OccursInCorpus(ret.word)) =>
          IsResult(ret, <<>>)
    /\ \A word \in QueryWords, d \in ToSet(Documents) :
          ~OccursIn(word, d) =>
              /\ IsResult(DocWordFrequency(d, word), 0)
              /\ IsResult(DocSentencesContainingWord(d, word), <<>>)

\* a word of no document has been looked up in a corpus that holds the empty
\* document and one with words
C3_Witness ==
    /\ ret.op = "DocumentsMetrics.sentences_containing_word"
    /\ ~OccursInCorpus(ret.word)
    /\ \E j, k \in 1..Len(Documents) :
          /\ NormalizedWordsOf(Documents[j]) = <<>>
          /\ NormalizedWordsOf(Documents[k]) # <<>>

(***************************************************************************)
(* C4: a call of mostCommonWordsFilteredByLength((lower, upper), n) with a *)
(* limit n returns at most n entries, each word's length is within         *)
(* [lower, upper], and the frequencies never increase along the result.    *)
(***************************************************************************)
C4_AtMostNInRangeDescending ==
    (ret.op = "DocumentsMetrics.most_common_words_filtered_by_length" /\ ret.n # None) =>
        /\ ret.exc = NoExc
        /\ Len(ret.val) <= Get(ret.n)
        /\ \A i \in 1..Len(ret.val) :
              /\ ret.interval[1] <= Len(ret.val[i][1])
              /\ Len(ret.val[i][1]) <= ret.interval[2]
        /\ \A i \in 1..(Len(ret.val) - 1) : ret.val[i][2] >= ret.val[i + 1][2]

\* the words in range, of the vocabulary of all the documents of the corpus
AggregateVocabulary ==
    UNION {ToSet(NormalizedWordsOf(Documents[k])) : k \in 1..Len(Documents)}

InRange(interval) ==
    {word \in AggregateVocabulary : interval[1] <= Len(word) /\ Len(word) <= interval[2]}

\* a limit has cut the result short, and what is left holds two frequencies
C4_Witness ==
    /\ Returned("DocumentsMetrics.most_common_words_filtered_by_length")
    /\ ret.n # None
    /\ Len(ret.val) = Get(ret.n)
    /\ Cardinality(InRange(ret.interval)) > Get(ret.n)
    /\ \E i \in 1..(Len(ret.val) - 1) : ret.val[i][2] > ret.val[i + 1][2]

(***************************************************************************)
(* C5: the entries returned are words in range, each once, with the        *)
(* corpus frequency of the word.  Without a limit every word in range is   *)
(* returned; with a limit n >= 1 there are min(n, number of words in       *)
(* range) entries and no word left out is more frequent than a word        *)
(* returned.                                                               *)
(***************************************************************************)
ReturnedWords == {ret.val[i][1] : i \in 1..Len(ret.val)}

C5_MostFrequentInRange ==
    ret.op = "DocumentsMetrics.most_common_words_filtered_by_length" =>
        /\ ret.exc = NoExc
        /\ \A i \in 1..Len(ret.val) :
              /\ ret.val[i][1] \in InRange(ret.interval)
              /\ ret.val[i][2] = CorpusWordFrequency(ret.val[i][1]).val
              /\ \A j \in 1..Len(ret.val) : ret.val[i][1] = ret.val[j][1] => i = j
        /\ ret.n = None => ReturnedWords = InRange(ret.interval)
        /\ (ret.n # None /\ Get(ret.n) >= 1) =>
              /\ Len(ret.val) = Min2(Get(ret.n), Cardinality(InRange(ret.interval)))
              /\ \A word \in InRange(ret.interval) \ ReturnedWords :
                    \A i \in 1..Len(ret.val) :
                        CorpusWordFrequency(word).val <= ret.val[i][2]

\* a limit has left out a word in range that is less frequent than one returned
C5_Witness ==
    /\ Returned("DocumentsMetrics.most_common_words_filtered_by_length")
    /\ ret.n # None /\ Get(ret.n) >= 1
    /\ \E word \in InRange(ret.interval) \ ReturnedWords :
          \E i \in 1..Len(ret.val) : CorpusWordFrequency(word).val < ret.val[i][2]

(***************************************************************************)
(* C6: documentNamesContainingWord(w) returns the name of every document   *)
(* of the corpus in which w occurs, one per position of the list of        *)
(* documents, in the order of the positions.                               *)
(***************************************************************************)
RECURSIVE NamesOfDocumentsWith(_, _)
NamesOfDocumentsWith(word, k) ==
    IF k = 0 THEN <<>>
    ELSE IF OccursIn(word, Documents[k])
         THEN Append(NamesOfDocumentsWith(word, k - 1), dm[Documents[k]]._doc.name)
         ELSE NamesOfDocumentsWith(word, k - 1)

C6_NamesInSuppliedOrder ==
    ret.op = "DocumentsMetrics.document_names_containing_word" =>
        /\ ret.exc = NoExc
        /\ ret.val = NamesOfDocumentsWith(ret.word, Len(Documents))

\* two names returned in the order supplied, which is not their sorted order
C6_Witness ==
    /\ Returned("DocumentsMetrics.document_names_containing_word")
    /\ ret.val = <<"z.txt", "a.txt">>

(***************************************************************************)
(* C7: corpus.sentencesContainingWord(w) is the concatenation, in the      *)
(* order of the documents, of doc.sentencesContainingWord(w) of the        *)
(* documents in which w occurs, and of nothing for the other documents.    *)
(***************************************************************************)
RECURSIVE SentencesOfDocumentsWith(_, _)
SentencesOfDocumentsWith(word, k) ==
    IF k = 0 THEN <<>>
    ELSE IF OccursIn(word, Documents[k])
         THEN SentencesOfDocumentsWith(word, k - 1)
                  \o DocSentencesContainingWord(Documents[k], word).val
         ELSE SentencesOfDocumentsWith(word, k - 1)

C7_SentencesConcatenatedInDocumentOrder ==
    ret.op = "DocumentsMetrics.sentences_containing_word" =>
        /\ ret.exc = NoExc
        /\ ret.val = SentencesOfDocumentsWith(ret.word, Len(Documents))

\* sentences of two different documents, two of them of the first document
C7_Witness ==
    /\ Returned("DocumentsMetrics.sentences_containing_word")
    /\ Len(Documents) = 2
    /\ Len(DocSentencesContainingWord(Documents[1], ret.word).val) = 2
    /\ Len(DocSentencesContainingWord(Documents[2], ret.word).val) = 1
    /\ DocSentencesContainingWord(Documents[2], ret.word).val[1] \notin
           ToSet(DocSentencesContainingWord(Documents[1], ret.word).val)
    /\ Len(ret.val) = 3

(***************************************************************************)
(* C8: DocumentIndex.sentencesContainingWord(w) returns, in the order of   *)
(* the text, the sentences that have a token equal to w once both are      *)
(* lowercased, each once however often w occurs in it: what scanning the   *)
(* tokens of every sentence again gives.                                   *)
(***************************************************************************)
\* the sentences and their tokens, from the text of the one document
TextSentences == sent_tokenize(Get(fs[dm[1]._doc]))

HasToken(sentence, word) ==
    \E i \in 1..Len(regexp_tokenize(sentence)) :
        lower(regexp_tokenize(sentence)[i]) = lower(word)

RECURSIVE ScanSentences(_, _)
ScanSentences(word, k) ==
    IF k = 0 THEN <<>>
    ELSE IF HasToken(TextSentences[k], word)
         THEN Append(ScanSentences(word, k - 1), TextSentences[k])
         ELSE ScanSentences(word, k - 1)

C8_LookupEqualsScan ==
    ret.op = "DocumentMetrics.sentences_containing_word" =>
        /\ ret.exc = NoExc
        /\ ret.val = ScanSentences(ret.word, Len(TextSentences))

OccurrencesIn(sentence, word) ==
    Cardinality({i \in 1..Len(regexp_tokenize(sentence)) :
                     lower(regexp_tokenize(sentence)[i]) = lower(word)})

\* two sentences returned out of three, the first of them holding the word twice
C8_Witness ==
    /\ Returned("DocumentMetrics.sentences_containing_word")
    /\ Len(TextSentences) = 3
    /\ Len(ret.val) = 2
    /\ OccurrencesIn(ret.val[1], ret.word) = 2
    /\ ret.val[1] # ret.val[2]

(***************************************************************************)
(* C9: once the tokens of the sentences are built there is one list of     *)
(* tokens per sentence, the i-th being the tokens of the i-th sentence     *)
(* alone.                                                                  *)
(***************************************************************************)
TokensAlignedWith(sentence_words, sentences) ==
    /\ Len(sentence_words) = Len(sentences)
    /\ \A i \in 1..Len(sentences) : sentence_words[i] = regexp_tokenize(sentences[i])

C9_TokensPerSentence ==
    /\ dm[1]._sentence_words # None =>
          /\ dm[1]._sentences # None
          /\ TokensAlignedWith(Get(dm[1]._sentence_words), Get(dm[1]._sentences))
    /\ ret.op = "DocumentMetrics.sentence_words" =>
          /\ ret.exc = NoExc
          /\ TokensAlignedWith(ret.val, TextSentences)

\* the tokens of a document of several sentences have been returned
C9_Witness ==
    /\ Returned("DocumentMetrics.sentence_words")
    /\ Len(ret.val) >= 2
    /\ \A i \in 1..Len(ret.val) : ret.val[i] # <<>>

(***************************************************************************)
(* C10: for a document whose text is empty, sentences, sentence tokens and *)
(* words, normalized or not, are the empty list, and the frequency of      *)
(* every word is 0.                                                        *)
(***************************************************************************)
C10_EmptyDocument ==
    Get(fs[dm[1]._doc]) = <<>> =>
        /\ ret.op \in {"DocumentMetrics.sentences", "DocumentMetrics.sentence_words",
                       "DocumentMetrics.words", "DocumentMetrics.words_normalized"} =>
              IsResult(ret, <<>>)
        /\ ret.op = "DocumentMetrics.word_frequency" => IsResult(ret, 0)
        /\ \A word \in QueryWords : IsResult(DocWordFrequency(1, word), 0)

\* the words of the empty document have been returned, its sentences memoized
C10_Witness ==
    /\ Get(fs[dm[1]._doc]) = <<>>
    /\ Returned("DocumentMetrics.words")
    /\ dm[1]._sentences = Some(<<>>)
    /\ dm[1]._words = Some(<<>>)

(***************************************************************************)
(* C11: when a document of the corpus has no file, every call of           *)
(* word_frequency, document_names_containing_word,                         *)
(* sentences_containing_word and most_common_words_filtered_by_length      *)
(* raises the FileNotFoundError of Document.read and returns no result,    *)
(* wherever the document stands in the list and whatever was looked up.    *)
(***************************************************************************)
CorpusOperations ==
    { "DocumentsMetrics.word_frequency",
      "DocumentsMetrics.document_names_containing_word",
      "DocumentsMetrics.sentences_containing_word",
      "DocumentsMetrics.most_common_words_filtered_by_length" }

HasUnreadableDocument ==
    \E k \in 1..Len(Documents) : fs[dm[Documents[k]]._doc] = None

C11_UnreadableDocumentFailsOperation ==
    (ret.op \in CorpusOperations /\ HasUnreadableDocument) =>
        /\ ret.exc = "FileNotFoundError"
        /\ ret.val = <<>>

\* the call has failed on the second document after it had counted the words of
\* the first, which has words
C11_Witness ==
    /\ ret.op = "DocumentsMetrics.most_common_words_filtered_by_length"
    /\ ret.exc = "FileNotFoundError"
    /\ Len(Documents) = 2
    /\ fs[dm[Documents[2]]._doc] = None
    /\ dm[Documents[1]]._word_frequencies # None
    /\ Get(dm[Documents[1]]._word_frequencies) # <<>>

(***************************************************************************)
(* C12: a run of the command line whose length interval has lower > upper  *)
(* or whose number of common words is below 1 ends with BadParameter       *)
(* while no DocumentMetrics and no DocumentsMetrics exists, and every call *)
(* of most_common_words_filtered_by_length made by a run has               *)
(* lower <= upper and n >= 1.                                              *)
(***************************************************************************)
InvalidArguments ==
    \/ cli.word_length_interval[1] > cli.word_length_interval[2]
    \/ cli.n_common_words < 1

C12_InvalidArgumentsNeverReachTheIndex ==
    /\ (cli.pc # "none" /\ InvalidArguments) =>
          /\ cli.pc = "exit"
          /\ ret.op = "cli.main" /\ ret.exc = "BadParameter"
          /\ dm = <<>> /\ dsm = None
    /\ ret.op = "DocumentsMetrics.most_common_words_filtered_by_length" =>
          /\ ret.interval[1] <= ret.interval[2]
          /\ ret.n # None /\ Get(ret.n) >= 1

\* a run with a good interval and a good width was turned away for n = 0
C12_Witness ==
    /\ cli.pc = "exit"
    /\ cli.n_common_words = 0
    /\ cli.word_length_interval[1] <= cli.word_length_interval[2]
    /\ cli.max_sentence_column_width >= 40
    /\ ret.exc = "BadParameter"
    /\ dm = <<>> /\ dsm = None

(***************************************************************************)
(* C13: every numeric literal of a sentence, a piece of text between       *)
(* spaces of the form [$] digits [separator digits] [%], is one of the     *)
(* tokens of the sentence, whole: with or without the dollar sign, with    *)
(* its separator and with its percent sign.                                *)
(***************************************************************************)
AllDigits(s) == s # <<>> /\ \A i \in 1..Len(s) : s[i] \in Digits

WithoutAffixes(c) ==
    LET a == IF c # <<>> /\ c[1] = "$" THEN Tail(c) ELSE c
    IN IF a # <<>> /\ Last(a) = "%" THEN Front(a) ELSE a

IsNumericLiteral(c) ==
    \/ AllDigits(WithoutAffixes(c))
    \/ \E k \in 2..(Len(WithoutAffixes(c)) - 1) :
          /\ WithoutAffixes(c)[k] \in {".", ","}
          /\ AllDigits(SubSeq(WithoutAffixes(c), 1, k - 1))
          /\ AllDigits(SubSeq(WithoutAffixes(c), k + 1, Len(WithoutAffixes(c))))

\* the pieces of the sentence between spaces
Chunks(sentence) ==
    { SubSeq(sentence, i, j) : <<i, j>> \in
        { ij \in (1..Len(sentence)) \X (1..Len(sentence)) :
            /\ ij[1] <= ij[2]
            /\ \A k \in ij[1]..ij[2] : ~IsSpace(sentence[k])
            /\ ij[1] = 1 \/ IsSpace(sentence[ij[1] - 1])
            /\ ij[2] = Len(sentence) \/ IsSpace(sentence[ij[2] + 1]) } }

C13_NoDollarLiteralIsOneToken ==
    Returned("DocumentMetrics.sentence_words") =>
        \A i \in 1..Len(ret.val) :
            \A c \in Chunks(TextSentences[i]) :
                IsNumericLiteral(c) => c \in ToSet(ret.val[i])

(***************************************************************************)
(* C14: once a DocumentMetrics has built its word-to-sentences map, every  *)
(* index in it is in [0, len(sentences)); once the DocumentsMetrics has    *)
(* built its word-to-documents map, every index in it is in                *)
(* [0, len(documents)); every index list of either map is strictly         *)
(* ascending and is not empty.                                             *)
(***************************************************************************)
IsIndexList(indices, length) ==
    /\ indices # <<>>
    /\ \A i \in 1..Len(indices) : indices[i] \in 0..(length - 1)
    /\ \A i \in 1..(Len(indices) - 1) : indices[i] < indices[i + 1]

AllIndexLists(map, length) ==
    \A i \in 1..Len(map) : IsIndexList(map[i][2], length)

C14_IndicesValidAndAscending ==
    /\ \A d \in DOMAIN dm :
          dm[d]._word_sentences_map # None =>
              /\ dm[d]._sentences # None
              /\ AllIndexLists(Get(dm[d]._word_sentences_map),
                               Len(Get(dm[d]._sentences)))
    /\ dsm._word_documents_map # None =>
          AllIndexLists(Get(dsm._word_documents_map), Len(dsm._docs_metrics))

\* both kinds of map are built, and each holds a word with two indices, of which
\* the larger is the last valid one
C14_Witness ==
    /\ dsm._word_documents_map # None
    /\ \E i \in 1..Len(Get(dsm._word_documents_map)) :
          Get(dsm._word_documents_map)[i][2] = <<0, Len(dsm._docs_metrics) - 1>>
    /\ \E d \in DOMAIN dm :
          /\ dm[d]._word_sentences_map # None
          /\ \E i \in 1..Len(Get(dm[d]._word_sentences_map)) :
                Get(dm[d]._word_sentences_map)[i][2] =
                    <<0, Len(Get(dm[d]._sentences)) - 1>>

(***************************************************************************)
(* C15: the derived fields are computed once.  As claimed: over every      *)
(* sequence of calls on a DocumentMetrics and on the DocumentsMetrics that *)
(* holds it, Document.read and nltk.sent_tokenize are called at most once  *)
(* for the DocumentMetrics, and a field that holds a value keeps it.  As   *)
(* amended: that holds for a DocumentMetrics whose document can be read;   *)
(* nltk.sent_tokenize is called at most once and a field that holds a      *)
(* value keeps it for every DocumentMetrics.                               *)
(***************************************************************************)
DocumentFields ==
    { "_sentences", "_sentence_words", "_word_sentences_map", "_words",
      "_words_normalized", "_word_frequencies", "_vocabulary",
      "_vocabulary_normalized" }

CorpusFields == {"_word_frequencies", "_word_documents_map"}

\* a step leaves every field that holds a value as it is
FieldsKeepTheirValue ==
    /\ \A d \in DOMAIN dm : \A field \in DocumentFields :
          dm[d][field] # None => dm'[d][field] = dm[d][field]
    /\ \A field \in CorpusFields :
          dsm[field] # None => dsm'[field] = dsm[field]

C15_ReadAtMostOnce ==
    [][ /\ \A d \in DOMAIN dm :
             calls'[d].read <= 1 /\ calls'[d].sent_tokenize <= 1
        /\ FieldsKeepTheirValue ]_vars

C15_ReadableReadAtMostOnce ==
    [][ /\ \A d \in DOMAIN dm :
             /\ fs[dm[d]._doc] # None => calls'[d].read <= 1
             /\ calls'[d].sent_tokenize <= 1
        /\ FieldsKeepTheirValue ]_vars

\* the empty document was read once, its empty list of sentences is kept, and
\* calls made after the one that read it have filled further fields from it
C15_Witness ==
    /\ fs[dm[1]._doc] = Some(<<>>)
    /\ calls[1].read = 1 /\ calls[1].sent_tokenize = 1
    /\ dm[1]._sentences = Some(<<>>)
    /\ dm[1]._vocabulary # None
    /\ dm[1]._word_sentences_map # None
    /\ dsm._word_frequencies # None
    /\ ret.op = "DocumentMetrics.sentences"

(***************************************************************************)
(* C16: whatever calls were made before it, in whatever order, a call on a *)
(* DocumentMetrics whose document can be read, or on the DocumentsMetrics  *)
(* that holds it, returns what the same call returns on objects built      *)
(* over the same document whose fields were all computed at construction.  *)
(***************************************************************************)
\* the objects as constructed, nothing computed
Constructed ==
    [dm |-> [d \in DOMAIN dm |-> DocumentMetrics_init(dm[d]._doc)],
     dsm |-> DocumentsMetrics_init(dsm._docs_metrics),
     calls |-> NoCalls(DOMAIN dm), exc |-> NoExc, val |-> <<>>]

\* the objects with every field computed, in the order of the class bodies
Precomputed ==
    DocumentsMetrics_word_document_map(
      DocumentsMetrics_word_frequencies(
        DocumentMetrics_vocabulary(
          DocumentMetrics_vocabulary(
            DocumentMetrics_word_frequencies(
              DocumentMetrics_words_normalized(
                DocumentMetrics_words(
                  DocumentMetrics_word_sentences_map(
                    DocumentMetrics_sentence_words(
                      DocumentMetrics_sentences(Constructed, 1), 1), 1), 1), 1), 1),
            1, TRUE), 1, FALSE)))

EveryFieldComputed(w) ==
    /\ w.exc = NoExc
    /\ \A field \in DocumentFields : w.dm[1][field] # None
    /\ \A field \in CorpusFields : w.dsm[field] # None

\* the call that has returned, made on the objects of w
SameCallOn(w) ==
    CASE ret.op = "DocumentMetrics.document_name" -> DocumentMetrics_document_name(w, 1)
      [] ret.op = "DocumentMetrics.sentences" -> DocumentMetrics_sentences(w, 1)
      [] ret.op = "DocumentMetrics.sentence_words" -> DocumentMetrics_sentence_words(w, 1)
      [] ret.op = "DocumentMetrics.word_sentences_map" ->
            DocumentMetrics_word_sentences_map(w, 1)
      [] ret.op = "DocumentMetrics.words" -> DocumentMetrics_words(w, 1)
      [] ret.op = "DocumentMetrics.words_normalized" ->
            DocumentMetrics_words_normalized(w, 1)
      [] ret.op = "DocumentMetrics.word_frequencies" ->
            DocumentMetrics_word_frequencies(w, 1)
      [] ret.op = "DocumentMetrics.vocabulary" ->
            DocumentMetrics_vocabulary(w, 1, ret.normalize)
      [] ret.op = "DocumentMetrics.word_frequency" ->
            DocumentMetrics_word_frequency(w, 1, ret.word)
      [] ret.op = "DocumentMetrics.sentences_containing_word" ->
            DocumentMetrics_sentences_containing_word(w, 1, ret.word)
      [] ret.op = "DocumentsMetrics.word_frequency" ->
            DocumentsMetrics_word_frequency(w, ret.word)
      [] ret.op = "DocumentsMetrics.document_names_containing_word" ->
            DocumentsMetrics_document_names_containing_word(w, ret.word)
      [] ret.op = "DocumentsMetrics.sentences_containing_word" ->
            DocumentsMetrics_sentences_containing_word(w, ret.word)
      [] ret.op = "DocumentsMetrics.most_common_words_filtered_by_length" ->
            DocumentsMetrics_most_common_words_filtered_by_length(w, ret.interval, ret.n)

ReturnsAsOn(w) == SameResult(ret, SameCallOn([w EXCEPT !.val = <<>>]))

C16_LazyReturnsWhatEagerReturns ==
    (ret.op # "none" /\ fs[dm[1]._doc] # None) => ReturnsAsOn(Precomputed)

\* vocabulary(False) has returned words in their written case after
\* vocabulary(True) and the map of the corpus were computed and before the
\* frequencies were
C16_Witness ==
    /\ Returned("DocumentMetrics.vocabulary") /\ ~ret.normalize
    /\ dm[1]._vocabulary_normalized # None
    /\ ret.val # Get(dm[1]._vocabulary_normalized)
    /\ dsm._word_documents_map # None
    /\ dm[1]._word_frequencies = None
    /\ EveryFieldComputed(Precomputed)

(***************************************************************************)
(* C17: a DocumentsMetrics over the same DocumentMetrics objects in        *)
(* another order gives every word the frequency and the set of document    *)
(* names that the DocumentsMetrics at hand has returned for it.            *)
(***************************************************************************)
\* the lists that hold the elements of l in another order, and l itself
Reorderings(l) ==
    { [i \in 1..Len(l) |-> l[f[i]]] :
        f \in { g \in [1..Len(l) -> 1..Len(l)] :
                 \A i, j \in 1..Len(l) : g[i] = g[j] => i = j } }

\* the objects at hand, with a new DocumentsMetrics over the list docs_metrics
WorldOver(docs_metrics) == [World EXCEPT !.dsm = DocumentsMetrics_init(docs_metrics)]

C17_OrderOfDocumentsDoesNotMatter ==
    \A l \in Reorderings(Documents) :
        /\ ret.op = "DocumentsMetrics.word_frequency" =>
              SameResult(ret, DocumentsMetrics_word_frequency(WorldOver(l), ret.word))
        /\ ret.op = "DocumentsMetrics.document_names_containing_word" =>
              ToSet(ret.val) =
                  ToSet(DocumentsMetrics_document_names_containing_word(
                            WorldOver(l), ret.word).val)

\* the frequency of a word that two different documents hold, one of them more
\* often than the other
C17_Witness ==
    /\ Returned("DocumentsMetrics.word_frequency")
    /\ Len(Documents) = 2
    /\ DocWordFrequency(Documents[1], ret.word).val > 0
    /\ DocWordFrequency(Documents[2], ret.word).val >
           DocWordFrequency(Documents[1], ret.word).val

(***************************************************************************)
(* C18: in a result of mostCommonWordsFilteredByLength, of two words of    *)
(* equal frequency the one that occurs first in the corpus, in the order   *)
(* of the documents and then of the tokens of a document, comes first; and *)
(* the result is the one that newly constructed objects over the same      *)
(* documents return for the same interval and limit.                       *)
(***************************************************************************)
\* the normalized words of the documents 1..k of the corpus, one after the other
RECURSIVE CorpusWords(_)
CorpusWords(k) ==
    IF k = 0 THEN <<>>
    ELSE CorpusWords(k - 1) \o NormalizedWordsOf(Documents[k])

FirstOccurrence(word) ==
    Min({i \in 1..Len(CorpusWords(Len(Documents))) :
             CorpusWords(Len(Documents))[i] = word})

RECURSIVE Concatenation(_)
Concatenation(lists) ==
    IF lists = <<>> THEN <<>> ELSE Head(lists) \o Concatenation(Tail(lists))

IsLowercaseOf(normalized, words) ==
    /\ Len(normalized) = Len(words)
    /\ \A i \in 1..Len(words) : normalized[i] = lower(words[i])

C19_WordsAreFlattenedSentenceWords ==
    /\ ret.op = "DocumentMetrics.words" =>
          /\ ret.exc = NoExc
          /\ ret.val = Concatenation(Get(dm[1]._sentence_words))
    /\ ret.op = "DocumentMetrics.words_normalized" =>
          /\ ret.exc = NoExc
          /\ IsLowercaseOf(ret.val, Concatenation(Get(dm[1]._sentence_words)))
    /\ (dm[1]._words # None /\ dm[1]._words_normalized # None) =>
          IsLowercaseOf(Get(dm[1]._words_normalized), Get(dm[1]._words))
    /\ ret.op = "DocumentMetrics.vocabulary" =>
          /\ ret.exc = NoExc
          /\ ret.normalize =>
                ret.val = {Get(dm[1]._words_normalized)[i] :
                              i \in 1..Len(Get(dm[1]._words_normalized))}
          /\ ~ret.normalize =>
                ret.val = {Get(dm[1]._words)[i] : i \in 1..Len(Get(dm[1]._words))}

\* the normalized words of a document of several sentences have been returned
\* after its words; some word is written with a capital and some word twice
C19_Witness ==
    /\ Returned("DocumentMetrics.words_normalized")
    /\ dm[1]._words # None
    /\ Len(Get(dm[1]._sentence_words)) >= 2
    /\ \A i \in 1..Len(Get(dm[1]._sentence_words)) :
          Len(Get(dm[1]._sentence_words)[i]) >= 2
    /\ ret.val # Get(dm[1]._words)
    /\ \E i, j \in 1..Len(ret.val) : i # j /\ ret.val[i] = ret.val[j]

(***************************************************************************)
(* C20: for the word of a lookup of the corpus, its frequency is above 0   *)
(* exactly if documentNamesContainingWord returns a name, and exactly if   *)
(* sentencesContainingWord returns a sentence; there are as many names as  *)
(* there are documents in the list with a frequency above 0 for the word;  *)
(* and every word that mostCommonWordsFilteredByLength has returned has a  *)
(* name and a sentence.                                                    *)
(***************************************************************************)
DocumentsHolding(word) ==
    {k \in 1..Len(Documents) : DocWordFrequency(Documents[k], word).val > 0}

LookupsAgree(frequency, names, sentences, word) ==
    /\ frequency.exc = NoExc /\ names.exc = NoExc /\ sentences.exc = NoExc
    /\ (frequency.val > 0) <=> (names.val # <<>>)
    /\ (frequency.val > 0) <=> (sentences.val # <<>>)
    /\ Len(names.val) = Cardinality(DocumentsHolding(word))

LookupsAgreeOn(word) ==
    LookupsAgree(CorpusWordFrequency(word), CorpusDocumentNames(word),
                 CorpusSentences(word), word)

C20_LookupsAgree ==
    /\ ret.op = "DocumentsMetrics.word_frequency" =>
          LookupsAgree(ret, CorpusDocumentNames(ret.word), CorpusSentences(ret.word),
                       ret.word)
    /\ ret.op = "DocumentsMetrics.document_names_containing_word" =>
          LookupsAgree(CorpusWordFrequency(ret.word), ret, CorpusSentences(ret.word),
                       ret.word)
    /\ ret.op = "DocumentsMetrics.sentences_containing_word" =>
          LookupsAgree(CorpusWordFrequency(ret.word), CorpusDocumentNames(ret.word), ret,
                       ret.word)
    /\ ret.op = "DocumentsMetrics.most_common_words_filtered_by_length" =>
          \A i \in 1..Len(ret.val) :
              /\ LookupsAgreeOn(ret.val[i][1])
              /\ CorpusDocumentNames(ret.val[i][1]).val # <<>>
              /\ CorpusSentences(ret.val[i][1]).val # <<>>

\* the names of a word that one of the two documents of the corpus holds and the
\* other does not
C20_Witness ==
    /\ Returned("DocumentsMetrics.document_names_containing_word")
    /\ Len(Documents) = 2
    /\ Len(ret.val) = 1
    /\ CorpusWordFrequency(ret.word).val > 1
    /\ Len(CorpusSentences(ret.word).val) > 1

(***************************************************************************)
(* C21: a call that needs the text of a DocumentMetrics whose document has *)
(* no file raises FileNotFoundError to the caller; a call that raises it   *)
(* has called Document.read again, leaves every field of that              *)
(* DocumentMetrics unset and the object as it was, and, when it is a call  *)
(* of the DocumentsMetrics, leaves _word_frequencies and                   *)
(* _word_documents_map of the DocumentsMetrics unset.                      *)
(***************************************************************************)
Unreadable == {d \in DOMAIN dm : fs[dm[d]._doc] = None}

C21_FailedReadLeavesFieldsUnset ==
    [][ /\ (ret'.self \in Unreadable /\ ret'.op # "DocumentMetrics.document_name") =>
              ret'.exc = "FileNotFoundError"
        /\ ret'.exc = "FileNotFoundError" =>
              /\ \A d \in Unreadable :
                    /\ dm'[d] = dm[d]
                    /\ \A field \in DocumentFields : dm'[d][field] = None
              /\ \E d \in Unreadable : calls'[d].read = calls[d].read + 1
              /\ ret'.op \in CorpusOperations =>
                    \A field \in CorpusFields : dsm'[field] = None ]_vars

\* the map of the corpus was asked for a second time: the document with a file
\* was indexed, the one without was read again, and nothing of it or of the
\* corpus is set
C21_Witness ==
    /\ ret.op = "DocumentsMetrics.document_names_containing_word"
    /\ ret.exc = "FileNotFoundError"
    /\ Len(Documents) = 2
    /\ Documents[1] \notin Unreadable /\ Documents[2] \in Unreadable
    /\ dm[Documents[1]]._word_sentences_map # None
    /\ calls[Documents[2]].read = 2
    /\ \A field \in DocumentFields : dm[Documents[2]][field] = None
    /\ \A field \in CorpusFields : dsm[field] = None

====
